---- MODULE Spec2Model ----
(***************************************************************************)
(* network_monitor: two probers (monitor_ip, one per address family) send  *)
(* a per-tick boolean over a bounded mpsc channel to the loop in main,     *)
(* which keeps the combined state and logs transitions; watch_sigs turns a *)
(* termination signal into a change of a watch channel.                    *)
(***************************************************************************)
EXTENDS Integers, Sequences, FiniteSets, TLC

\* ---------------------------------------------------------------- bounds
MaxProbes == 4     \* probes issued by the two probers together
MaxH == 2          \* largest hysteresis threshold explored (ARGS.hysteresis >= 1)
MaxTime == 1       \* seconds of wall-clock time explored

\* ------------------------------------------------------ program constants
ChanCap == 16              \* tokio::sync::mpsc::channel(16)
Limb == 65536              \* errors: u32, kept as two 16-bit limbs <<high, low>>

Fam == {"v4", "v6"}
Outcomes == {"Ok", "Err"}
Signals == {"SIGINT", "SIGTERM", "SIGQUIT"}

None == <<>>               \* Option::None; Some(x) is <<x>>
Panic == <<-1, -1>>        \* arithmetic overflow panic of a debug build

VARIABLES
    hysteresis,            \* ARGS.hysteresis
    now,                   \* the monotonic clock read by Instant::elapsed
    pc,                    \* pc[f]: position of monitor_ip for family f
    errors,                \* errors[f]: monitor_ip's consecutive failure counter
    chan,                  \* chan[f]: contents of the mpsc channel of family f
    hist,                  \* hist[f]: probe outcomes of family f so far (history)
    sent,                  \* sent[f]: booleans sent by the prober of f so far (history)
    probes,                \* number of probes counted against MaxProbes (history)
    nrecv,                 \* nrecv[f]: updates of f the loop in main has received (history)
    v4_down, v6_down,
    v4_error_active, v6_error_active,
    v4_error_start, v6_error_start,
    log,                   \* error!/info! events of the loop in main, in order
    main_pc,               \* position of main
    rx_alive,              \* the receivers v4_rx, v6_rx, rx are not dropped yet
    watch_pc,              \* position of watch_sigs
    cancel,                \* value held by the watch channel
    cancel_sends           \* number of tx.send(true) calls made (history)

vars == <<hysteresis, now, pc, errors, chan, hist, sent, probes, nrecv,
          v4_down, v6_down, v4_error_active, v6_error_active,
          v4_error_start, v6_error_start, log, main_pc, rx_alive,
          watch_pc, cancel, cancel_sends>>

proberVars == <<pc, errors, chan, hist, sent, probes>>
aggVars == <<nrecv, v4_down, v6_down, v4_error_active, v6_error_active,
             v4_error_start, v6_error_start, log>>
sigVars == <<watch_pc, cancel, cancel_sends>>

\* ------------------------------------------------------------ log events
Ev(m, d) == [msg |-> m, dur |-> d]

\* {:02}:{:02}:{:02} of secs / 3600, (secs / 60) % 60, secs % 60
HMS(secs) == <<secs \div 3600, (secs \div 60) % 60, secs % 60>>

\* start.elapsed().as_secs()
Elapsed(start) == now - start[1]

\* ---------------------------------------------------------- monitor_ip
\* let mut errors: u32 = 0
Zero == <<0, 0>>
U32Max == <<Limb - 1, Limb - 1>>

\* errors += 1 on a u32: past u32::MAX a release build wraps, a debug build panics
AddOne(e) ==
    IF e = U32Max THEN {Zero, Panic}
    ELSE IF e[2] = Limb - 1 THEN {<<e[1] + 1, 0>>}
    ELSE {<<e[1], e[2] + 1>>}

\* Ok(ping) => errors = 0, Err(e) => errors += 1
ErrorsAfter(e, o) == IF o = "Ok" THEN {Zero} ELSE AddOne(e)

\* errors >= ARGS.hysteresis
IsErrorAnyFailure(e, h) == e # Zero
IsErrorM(e, h) ==
    \/ e[1] > h \div Limb
    \/ e[1] = h \div Limb /\ e[2] > h % Limb
IsError(e, h) ==
    \/ e[1] > h \div Limb
    \/ e[1] = h \div Limb /\ e[2] >= h % Limb

\* --------------------------------------------------- the loop in main
\* if let Some(start) = .._error_start { info!(".. and was down for ..") ; .. = None }
\* else { info!(".. is back online") }
RecoverM(withDur, plain, start) ==
    IF start # None
    THEN [ev |-> <<Ev(withDur, HMS(Elapsed(start)))>>, start |-> None]
    ELSE [ev |-> <<>>, start |-> start]
Recover(withDur, plain, start) ==
    IF start # None
    THEN [ev |-> <<Ev(withDur, HMS(Elapsed(start)))>>, start |-> None]
    ELSE [ev |-> <<Ev(plain, None)>>, start |-> start]

V4Back(start) == Recover("IPv4 is back online, and was down for", "IPv4 is back online", start)
V6Back(start) == Recover("IPv6 is back online, and was down for", "IPv6 is back online", start)
V6BackSemi(start) == Recover("IPv6 is back online, and was down for", "IPv6 is back online;", start)
NetBack(start) == Recover("network is back online, and was down for", "network is back online", start)

NetDown == Ev("network is down!", None)
V4Down == Ev("IPv4 is down!", None)
V6Down == Ev("IPv6 is down!", None)

\* if !v4_error_active { error!("IPv4 is down!") }, and the same for v6
DownEvAlways(active, ev) == <<ev>>
DownEvNever(active, ev) == <<>>
DownEv(active, ev) == IF ~active THEN <<ev>> ELSE <<>>

\* if !(v4_error_active && v6_error_active) { error!("network is down!") }
NetDownEvAlways(a4, a6) == <<NetDown>>
NetDownEvM(a4, a6) == IF ~(a4 \/ a6) THEN <<NetDown>> ELSE <<>>
NetDownEv(a4, a6) == IF ~(a4 /\ a6) THEN <<NetDown>> ELSE <<>>

\* match (v4_down, v6_down) { .. } on the flags a4, a6 and the clocks s4, s6
Match(d4, d6, a4, a6, s4, s6) ==
    CASE d4 /\ d6 ->
           [ev |-> NetDownEv(a4, a6),
            a4 |-> TRUE, a6 |-> TRUE, s4 |-> s4, s6 |-> s6]
      [] d4 /\ ~d6 ->
           [ev |-> DownEv(a4, V4Down)
                   \o (IF a6 THEN V6BackSemi(s6).ev ELSE <<>>),
            a4 |-> TRUE, a6 |-> FALSE, s4 |-> s4,
            s6 |-> IF a6 THEN V6BackSemi(s6).start ELSE s6]
      [] ~d4 /\ d6 ->
           [ev |-> DownEv(a6, V6Down)
                   \o (IF a4 THEN V4Back(s4).ev ELSE <<>>),
            a4 |-> FALSE, a6 |-> TRUE,
            s4 |-> IF a4 THEN V4Back(s4).start ELSE s4, s6 |-> s6]
      [] ~d4 /\ ~d6 ->
           IF a4 /\ a6
           THEN [ev |-> NetBack(s4).ev, a4 |-> FALSE, a6 |-> FALSE,
                 s4 |-> NetBack(s4).start, s6 |-> s6]
           ELSE IF a4
           THEN [ev |-> V4Back(s4).ev, a4 |-> FALSE, a6 |-> FALSE,
                 s4 |-> V4Back(s4).start, s6 |-> s6]
           ELSE IF a6
           THEN [ev |-> V6Back(s6).ev, a4 |-> FALSE, a6 |-> FALSE,
                 s4 |-> s4, s6 |-> V6Back(s6).start]
           ELSE [ev |-> <<>>, a4 |-> FALSE, a6 |-> FALSE, s4 |-> s4, s6 |-> s6]

\* v4 = v4_rx.recv() => v4_down = v4.unwrap()  /  v6 = v6_rx.recv() => v6_down = ..
ReceivedBoth(f, val, d4, d6) == <<val, val>>
ReceivedM(f, val, d4, d6) == IF f = "v4" THEN <<val, FALSE>> ELSE <<FALSE, val>>
Received(f, val, d4, d6) == IF f = "v4" THEN <<val, d6>> ELSE <<d4, val>>

\* ---------------------------------------------------------------- Init
Init ==
    /\ hysteresis \in 1..MaxH
    /\ now = 0
    /\ pc = [f \in Fam |-> "ping"]
    /\ errors = [f \in Fam |-> Zero]
    /\ chan = [f \in Fam |-> <<>>]
    /\ hist = [f \in Fam |-> <<>>]
    /\ sent = [f \in Fam |-> <<>>]
    /\ probes = 0
    /\ nrecv = [f \in Fam |-> 0]
    /\ v4_down = FALSE /\ v6_down = FALSE
    /\ v4_error_active = FALSE /\ v6_error_active = FALSE
    /\ v4_error_start = None /\ v6_error_start = None
    /\ log = <<>>
    /\ main_pc = "loop"
    /\ rx_alive = TRUE
    /\ watch_pc = "wait"
    /\ cancel = FALSE
    /\ cancel_sends = 0

\* the tokio runtime still runs the spawned tasks
RuntimeUp == main_pc \notin {"exit", "abort"}

\* ------------------------------------------------------------- actions
\* the wall clock advances
Clock ==
    /\ now < MaxTime
    /\ now' = now + 1
    /\ UNCHANGED <<hysteresis, proberVars, aggVars, main_pc, rx_alive, sigVars>>

\* let ping = surge_ping::ping(addr, &payload).await; match ping { .. }
Ping(f) ==
    /\ RuntimeUp
    /\ pc[f] = "ping"
    /\ probes < MaxProbes
    /\ probes' = probes + 1
    /\ \E o \in Outcomes : \E e \in ErrorsAfter(errors[f], o) :
          /\ hist' = [hist EXCEPT ![f] = Append(@, o)]
          /\ IF e = Panic
             THEN /\ pc' = [pc EXCEPT ![f] = "overflow"]
                  /\ UNCHANGED errors
             ELSE /\ pc' = [pc EXCEPT ![f] = "send"]
                  /\ errors' = [errors EXCEPT ![f] = e]
    /\ UNCHANGED <<hysteresis, now, chan, sent, aggVars, main_pc, rx_alive, sigVars>>

\* the bounded channel has a free slot: send completes without waiting
HasCapacityM(c) == TRUE
HasCapacity(c) == Len(c) < ChanCap

\* is_error.send(errors >= ARGS.hysteresis).await.expect("receiver died")
Send(f) ==
    /\ RuntimeUp
    /\ pc[f] = "send"
    /\ IF rx_alive
       THEN /\ HasCapacity(chan[f])
            /\ chan' = [chan EXCEPT ![f] = Append(@, IsError(errors[f], hysteresis))]
            /\ sent' = [sent EXCEPT ![f] = Append(@, IsError(errors[f], hysteresis))]
            /\ pc' = [pc EXCEPT ![f] = "tick"]
       ELSE /\ pc' = [pc EXCEPT ![f] = "panicked"]
            /\ UNCHANGED <<chan, sent>>
    /\ UNCHANGED <<hysteresis, now, errors, hist, probes, aggVars, main_pc, rx_alive,
                   sigVars>>

\* interval.tick().await
TickM(f) ==
    /\ RuntimeUp
    /\ pc[f] = "tick"
    /\ pc' = [pc EXCEPT ![f] = "send"]
    /\ UNCHANGED <<hysteresis, now, errors, chan, hist, sent, probes, aggVars, main_pc,
                   rx_alive, sigVars>>
Tick(f) ==
    /\ RuntimeUp
    /\ pc[f] = "tick"
    /\ pc' = [pc EXCEPT ![f] = "ping"]
    /\ UNCHANGED <<hysteresis, now, errors, chan, hist, sent, probes, aggVars, main_pc,
                   rx_alive, sigVars>>

\* the sender half of chan[f] is dropped: its monitor_ip task has ended
SenderGone(f) == pc[f] \in {"panicked", "overflow"}

\* v4_rx.recv() / v6_rx.recv() is ready with a value
ReadyBoth(f) == \A g \in Fam : chan[g] # <<>>
Ready(f) == chan[f] # <<>>

\* the value recv() yields: the oldest one buffered
RecvValueM(c) == c[Len(c)]
RecvValue(c) == Head(c)

\* one iteration of the loop taking the v4_rx / v6_rx branch of select!
MainRecv(f) ==
    /\ main_pc = "loop"
    /\ IF Ready(f)
       THEN LET d == Received(f, RecvValue(chan[f]), v4_down, v6_down)
                m == Match(d[1], d[2], v4_error_active, v6_error_active,
                           v4_error_start, v6_error_start)
            IN /\ chan' = [chan EXCEPT ![f] = Tail(@)]
               /\ nrecv' = [nrecv EXCEPT ![f] = @ + 1]
               /\ v4_down' = d[1]
               /\ v6_down' = d[2]
               /\ v4_error_active' = m.a4
               /\ v6_error_active' = m.a6
               /\ v4_error_start' = m.s4
               /\ v6_error_start' = m.s6
               /\ log' = log \o m.ev
               /\ UNCHANGED main_pc
       ELSE /\ chan[f] = <<>>
            /\ SenderGone(f)          \* recv() yields None, unwrap panics
            /\ main_pc' = "panicked"
            /\ UNCHANGED <<chan, aggVars>>
    /\ UNCHANGED <<hysteresis, now, pc, errors, hist, sent, probes, rx_alive, sigVars>>

\* should_end.next() is ready: a prober task finished or rx.changed() resolved
ShouldEndReadyM == \E f \in Fam : SenderGone(f)
ShouldEndReady == cancel \/ watch_pc \in {"done", "panicked"} \/ \E f \in Fam : SenderGone(f)

\* _ = should_end.next() => { break }  ..  info!("logging stopped")
MainBreak ==
    /\ main_pc = "loop"
    /\ ShouldEndReady
    /\ main_pc' = "stopped"
    /\ UNCHANGED <<hysteresis, now, proberVars, aggVars, rx_alive, sigVars>>

\* main's future completes, or unwinds after the unwrap panic: v4_rx, v6_rx
\* and rx are dropped
MainReturn ==
    /\ main_pc \in {"stopped", "panicked"}
    /\ main_pc' = IF main_pc = "stopped" THEN "returned" ELSE "unwound"
    /\ rx_alive' = FALSE
    /\ UNCHANGED <<hysteresis, now, proberVars, aggVars, sigVars>>

\* the runtime is dropped: every task still alive is cancelled where it awaits
RuntimeShutdown ==
    /\ main_pc \in {"returned", "unwound"}
    /\ main_pc' = IF main_pc = "returned" THEN "exit" ELSE "abort"
    /\ pc' = [f \in Fam |-> IF SenderGone(f) THEN pc[f] ELSE "cancelled"]
    /\ watch_pc' = IF watch_pc \in {"wait", "send"} THEN "cancelled" ELSE watch_pc
    /\ UNCHANGED <<hysteresis, now, errors, chan, hist, sent, probes, aggVars, rx_alive,
                   cancel, cancel_sends>>

\* select_all([sigint.recv(), sigterm.recv(), sigquit.recv()]).await
WatchSignal ==
    /\ RuntimeUp
    /\ watch_pc = "wait"
    /\ \E s \in Signals : watch_pc' = "send"
    /\ UNCHANGED <<hysteresis, now, proberVars, aggVars, main_pc, rx_alive,
                   cancel, cancel_sends>>

\* tx.send(true).unwrap(); trace!("sent cancellation signal")
WatchSend ==
    /\ RuntimeUp
    /\ watch_pc = "send"
    /\ cancel_sends' = cancel_sends + 1
    /\ IF rx_alive
       THEN cancel' = TRUE /\ watch_pc' = "done"
       ELSE watch_pc' = "panicked" /\ UNCHANGED cancel
    /\ UNCHANGED <<hysteresis, now, proberVars, aggVars, main_pc, rx_alive>>

Next ==
    \/ Clock
    \/ \E f \in Fam : Ping(f)
    \/ \E f \in Fam : Send(f)
    \/ \E f \in Fam : Tick(f)
    \/ \E f \in Fam : MainRecv(f)
    \/ MainBreak
    \/ MainReturn
    \/ RuntimeShutdown
    \/ WatchSignal
    \/ WatchSend

Spec == Init /\ [][Next]_vars

\* select! picks among its ready branches at random, and the runtime keeps
\* polling a task that can run
FairSpec ==
    /\ Spec
    /\ WF_vars(WatchSend)
    /\ WF_vars(MainBreak)
    /\ WF_vars(MainReturn)
    /\ WF_vars(RuntimeShutdown)

\* ------------------------------------------------- auxiliary definitions
RECURSIVE TrailingFailures(_)
\* number of consecutive failed probes at the end of the outcome sequence s
TrailingFailures(s) ==
    IF s = <<>> \/ s[Len(s)] = "Ok" THEN 0
    ELSE 1 + TrailingFailures(SubSeq(s, 1, Len(s) - 1))

\* consecutive failures of family f ending at its i-th probe
FailuresAt(f, i) == TrailingFailures(SubSeq(hist[f], 1, i))

\* the latest value the loop in main has received from family f
Latest(f) == IF nrecv[f] = 0 THEN FALSE ELSE sent[f][nrecv[f]]

\* this step is an iteration of the loop in main that processed an update
Updated == nrecv' # nrecv

\* the events logged by this step
Emitted == SubSeq(log', Len(log) + 1, Len(log'))

Msgs(evs) == {evs[i].msg : i \in DOMAIN evs}

DownMsg(f) == IF f = "v4" THEN "IPv4 is down!" ELSE "IPv6 is down!"

BackMsgs(f) ==
    IF f = "v4"
    THEN {"IPv4 is back online", "IPv4 is back online, and was down for"}
    ELSE {"IPv6 is back online", "IPv6 is back online;",
          "IPv6 is back online, and was down for"}

NetBackMsgs == {"network is back online", "network is back online, and was down for"}

\* every message that reports something about family f
AboutMsgs(f) == {DownMsg(f), "network is down!"} \cup BackMsgs(f) \cup NetBackMsgs

TypeOK ==
    /\ hysteresis \in 1..MaxH
    /\ now \in 0..MaxTime
    /\ \A f \in Fam : pc[f] \in {"ping", "send", "tick", "panicked", "overflow", "cancelled"}
    /\ \A f \in Fam : Len(chan[f]) <= ChanCap
    /\ main_pc \in {"loop", "stopped", "returned", "exit", "panicked", "unwound", "abort"}
    /\ watch_pc \in {"wait", "send", "done", "panicked", "cancelled"}
    /\ {v4_down, v6_down, v4_error_active, v6_error_active, cancel, rx_alive} \subseteq BOOLEAN

\* ------------------------------------------------------------------ C1
\* C1: every boolean a prober has sent is TRUE exactly when the number of
\* consecutive failed probes ending at that tick is at least the hysteresis
\* threshold (so it turns TRUE at the tick the count reaches the threshold,
\* stays TRUE while failures go on and is FALSE at the next success).
C1_SignalIffThreshold ==
    \A f \in Fam :
        /\ Len(sent[f]) <= Len(hist[f])
        /\ \A i \in 1..Len(sent[f]) : sent[f][i] = (FailuresAt(f, i) >= hysteresis)

C1_Witness ==
    /\ hysteresis = 2
    /\ hist["v4"] = <<"Err", "Err", "Err", "Ok">>
    /\ sent["v4"] = <<FALSE, TRUE, TRUE, FALSE>>

\* ------------------------------------------------------------------ C2
\* C2: an update that leaves (v4_down, v6_down) equal to the recorded
\* combined state logs nothing, and whenever the loop logs anything the
\* recorded combined state has changed in that step.
C2_EdgeTriggered ==
    [][ /\ (Updated /\ <<v4_down', v6_down'>> = <<v4_error_active, v6_error_active>>)
           => log' = log
        /\ log' # log
           => <<v4_error_active', v6_error_active'>> # <<v4_error_active, v6_error_active>>
      ]_vars

C2_Witness ==
    /\ nrecv["v4"] = 2 /\ nrecv["v6"] = 1
    /\ sent["v4"][1] /\ sent["v4"][2] /\ ~sent["v6"][1]
    /\ log = <<V4Down>>

\* ------------------------------------------------------------------ C3
\* C3: the recorded combined state is always the pair of the latest values
\* received from the two streams (FALSE before a stream's first update), and
\* an update of one family leaves the stored value of the other unchanged.
C3_LatestPair ==
    /\ [](/\ <<v4_error_active, v6_error_active>> = <<Latest("v4"), Latest("v6")>>
          /\ <<v4_down, v6_down>> = <<Latest("v4"), Latest("v6")>>)
    /\ [][ /\ nrecv'["v4"] # nrecv["v4"] => v6_down' = v6_down
           /\ nrecv'["v6"] # nrecv["v6"] => v4_down' = v4_down ]_vars

C3_Witness ==
    /\ nrecv["v4"] = 2 /\ nrecv["v6"] = 1
    /\ sent["v4"] = <<TRUE, FALSE>> /\ sent["v6"] = <<TRUE>>
    /\ log = <<V6Down, NetDown, Ev("IPv4 is back online", None)>>
    /\ ~v4_error_active /\ v6_error_active

\* ------------------------------------------------------------------ C4
\* C4 as claimed: whenever family X goes from not down to down in a step of
\* the loop, that step logs "X is down!", unless both families newly go
\* down together in that step and "network is down!" is logged instead.
C4_FamilyDownEvent ==
    [][ Updated =>
        /\ (~v4_error_active /\ v4_error_active')
           => \/ "IPv4 is down!" \in Msgs(Emitted)
              \/ (~v6_error_active /\ v6_error_active' /\ "network is down!" \in Msgs(Emitted))
        /\ (~v6_error_active /\ v6_error_active')
           => \/ "IPv6 is down!" \in Msgs(Emitted)
              \/ (~v4_error_active /\ v4_error_active' /\ "network is down!" \in Msgs(Emitted))
      ]_vars

\* C4 as amended: whenever family X goes from not down to down in a step of
\* the loop, that step logs exactly one error event: "X is down!" if the
\* other family is not down in the new state, "network is down!" if it is
\* (whether or not the other family was down before). With a hysteresis of
\* 1 every failed probe sends TRUE, every successful one FALSE.
C4_DownReport ==
    /\ [][ Updated =>
           /\ (~v4_error_active /\ v4_error_active')
              => Emitted = IF v6_error_active' THEN <<NetDown>> ELSE <<V4Down>>
           /\ (~v6_error_active /\ v6_error_active')
              => Emitted = IF v4_error_active' THEN <<NetDown>> ELSE <<V6Down>>
         ]_vars
    /\ [](hysteresis = 1 =>
            \A f \in Fam : \A i \in 1..Len(sent[f]) : sent[f][i] = (hist[f][i] = "Err"))

C4_Witness ==
    /\ hysteresis = 1
    /\ hist["v4"] = <<"Err">> /\ hist["v6"] = <<"Ok", "Err">>
    /\ log = <<V4Down, NetDown>>
    /\ v4_error_active /\ v6_error_active

\* ------------------------------------------------------------------ C5
\* both probers first send TRUE at their k-th tick, and the loop in main has
\* received exactly the first k updates of each
SimultaneousOnset(k) ==
    \A f \in Fam :
        /\ nrecv[f] = k
        /\ sent[f][k]
        /\ \A i \in 1..(k - 1) : ~sent[f][i]

C6_RecoveryCarriesDuration ==
    [][ Updated =>
        /\ (v4_error_active /\ ~v4_error_active')
           => /\ \E i \in DOMAIN Emitted :
                    /\ Emitted[i].msg \in BackMsgs("v4") \cup NetBackMsgs
                    /\ Len(Emitted[i].dur) = 3
              /\ v4_error_start' = None
        /\ (v6_error_active /\ ~v6_error_active')
           => /\ \E i \in DOMAIN Emitted :
                    /\ Emitted[i].msg \in BackMsgs("v6") \cup NetBackMsgs
                    /\ Len(Emitted[i].dur) = 3
              /\ v6_error_start' = None
      ]_vars

\* ------------------------------------------------------------------ C7
\* C7 as claimed: the outage clock of a family is set exactly while the
\* family is recorded as down.
C7_ClockIffDown ==
    /\ (v4_error_start # None) <=> v4_error_active
    /\ (v6_error_start # None) <=> v6_error_active

\* ------------------------------------------------------------------ C8
\* C8: when the recovery of a family is detected while its outage clock is
\* not running, the step logs a recovery event for it without a duration,
\* the loop goes on (main_pc stays "loop") and the family is recorded as up.
C8_RecoveryWithoutClock ==
    [][ Updated =>
        /\ (v4_error_active /\ ~v4_down' /\ v4_error_start = None)
           => /\ \E i \in DOMAIN Emitted :
                    /\ Emitted[i].msg \in BackMsgs("v4") \cup NetBackMsgs
                    /\ Emitted[i].dur = None
              /\ main_pc' = "loop"
              /\ ~v4_error_active'
        /\ (v6_error_active /\ ~v6_down' /\ v6_error_start = None)
           => /\ \E i \in DOMAIN Emitted :
                    /\ Emitted[i].msg \in BackMsgs("v6") \cup NetBackMsgs
                    /\ Emitted[i].dur = None
              /\ main_pc' = "loop"
              /\ ~v6_error_active'
      ]_vars

C8_Witness ==
    /\ hist["v6"] = <<"Err", "Ok", "Err">>
    /\ log = <<V6Down, Ev("IPv6 is back online", None), V6Down>>
    /\ v6_error_start = None
    /\ main_pc = "loop"

\* ------------------------------------------------------------------ C9
\* the consecutive-failure count of family f has never reached the threshold
BelowThreshold(f) == \A i \in 1..Len(hist[f]) : FailuresAt(f, i) < hysteresis

\* the loop in main has received no TRUE so far
NoTrueReceived == \A f \in Fam : \A i \in 1..nrecv[f] : ~sent[f][i]

\* C9: while the consecutive-failure count of a family has never reached the
\* threshold, the log holds no event about that family and no "network is
\* down!" event, whatever the other family does; and the log is empty and
\* the recorded state Healthy until some stream has delivered TRUE.
C9_TransientAbsorbed ==
    /\ \A f \in Fam :
          BelowThreshold(f) => Msgs(log) \cap AboutMsgs(f) = {}
    /\ NoTrueReceived => (log = <<>> /\ ~v4_error_active /\ ~v6_error_active)

C9_Witness ==
    /\ hysteresis = 2
    /\ hist["v6"] = <<"Err", "Ok">> /\ nrecv["v6"] = 2
    /\ hist["v4"] = <<"Err", "Err">> /\ nrecv["v4"] = 2
    /\ log = <<V4Down>>

\* ----------------------------------------------------------------- C10
\* C10: watch_sigs calls tx.send(true) at most once, and exactly once by the
\* time it has returned; and once a termination signal has been received,
\* main leaves its loop through the should_end branch and runs to its end,
\* whatever is buffered in the two channels.
C10_SignalEndsProcess ==
    /\ [](/\ cancel_sends <= 1
          /\ cancel => cancel_sends = 1
          /\ watch_pc = "done" => (cancel /\ cancel_sends = 1))
    /\ (watch_pc = "send") ~> (main_pc = "exit")

C10_Witness ==
    /\ main_pc = "exit"
    /\ watch_pc = "done" /\ cancel /\ cancel_sends = 1
    /\ chan["v4"] # <<>> /\ chan["v6"] # <<>>

\* ----------------------------------------------------------------- C11
\* C11 as claimed: a prober that reaches its loop boundary (the end of
\* interval.tick()) once cancellation has been signalled starts no further
\* iteration, and no prober is ended from outside while its probe is in
\* flight.
C11_ProbersObserveCancel ==
    [][ \A f \in Fam :
           /\ (cancel /\ pc[f] = "tick") => pc'[f] # "ping"
           /\ pc[f] = "ping" => pc'[f] # "cancelled"
      ]_vars

\* ----------------------------------------------------------------- C12
\* C12 as claimed: when a prober's send has failed because the receiver is
\* gone ("receiver died"), the process does not end through the normal path
\* that logs "logging stopped" and returns from main successfully.
C12_ReceiverDiedIsFatal ==
    (\E f \in Fam : pc[f] = "panicked") => main_pc \notin {"returned", "exit"}

\* ----------------------------------------------------------------- C13
\* some task other than a prober hitting "receiver died" has panicked
OtherTaskPanicked ==
    \/ \E g \in Fam : pc[g] = "overflow"
    \/ main_pc \in {"panicked", "unwound", "abort"}
    \/ watch_pc = "panicked"

\* C13 as claimed: a prober hits the "receiver died" panic only after some
\* task has panicked; never in a shutdown that the cancellation signal
\* started and in which main left its loop by the should_end branch.
C13_NoPipelineFailureInShutdown ==
    \A f \in Fam : pc[f] = "panicked" => OtherTaskPanicked

\* ----------------------------------------------------------------- C14
\* select! polls its ready branches starting at a random one, so a recv
\* branch that stays ready is taken eventually
RecvFairSpec ==
    /\ Spec
    /\ WF_vars(MainRecv("v4"))
    /\ WF_vars(MainRecv("v6"))

\* C14: unless cancellation occurs, every boolean a prober has sent is
\* eventually received by the loop in main, whatever the other family's
\* stream delivers (many updates or none at all): again and again the
\* channel of each family is empty, so that all that was sent on it so far
\* has been received, or cancellation has occurred.
C14_NoStarvation ==
    \A f \in Fam : []<>(chan[f] = <<>> \/ cancel)

C14_Witness ==
    /\ ~cancel /\ watch_pc = "wait"
    /\ Len(hist["v6"]) = 0
    /\ Len(sent["v4"]) = 3 /\ nrecv["v4"] = 3

\* ----------------------------------------------------------------- C15
\* the number of booleans of one prober that main has not received yet
Backlog == ChanCap - 1

\* probe outcomes that alternate between failure and success
BacklogHist == [i \in 1..Backlog |-> IF i % 2 = 1 THEN "Err" ELSE "Ok"]

\* the state after the prober of family g has run Backlog iterations with
\* the outcomes BacklogHist while the loop in main has not received anything;
\* two of these probes are counted against MaxProbes
CapInit ==
    /\ hysteresis \in 1..MaxH
    /\ now = 0
    /\ \E g \in Fam :
          /\ pc = [f \in Fam |-> IF f = g THEN "tick" ELSE "ping"]
          /\ errors = [f \in Fam |->
                          IF f = g THEN <<0, TrailingFailures(BacklogHist)>> ELSE Zero]
          /\ hist = [f \in Fam |-> IF f = g THEN BacklogHist ELSE <<>>]
          /\ sent = [f \in Fam |->
                        IF f = g
                        THEN [i \in 1..Backlog |->
                                 IsError(<<0, TrailingFailures(SubSeq(BacklogHist, 1, i))>>,
                                         hysteresis)]
                        ELSE <<>>]
          /\ chan = sent
    /\ probes = 2
    /\ nrecv = [f \in Fam |-> 0]
    /\ v4_down = FALSE /\ v6_down = FALSE
    /\ v4_error_active = FALSE /\ v6_error_active = FALSE
    /\ v4_error_start = None /\ v6_error_start = None
    /\ log = <<>>
    /\ main_pc = "loop"
    /\ rx_alive = TRUE
    /\ watch_pc = "wait"
    /\ cancel = FALSE
    /\ cancel_sends = 0

CapSpec == CapInit /\ [][Next]_vars

\* C15: a channel never holds more than its capacity of 16 booleans; what it
\* holds is exactly what the prober has sent and main has not received yet,
\* in order (nothing dropped, nothing overwritten); and a prober whose send
\* finds the channel full stays in send, issuing no probe and sending
\* nothing, for as long as the channel is full.
C15_BoundedNoLoss ==
    /\ [](\A f \in Fam :
            /\ Len(chan[f]) <= ChanCap
            /\ nrecv[f] <= Len(sent[f])
            /\ chan[f] = SubSeq(sent[f], nrecv[f] + 1, Len(sent[f])))
    /\ [][ \A f \in Fam :
              (pc[f] = "send" /\ Len(chan[f]) = ChanCap /\ rx_alive)
              => (pc'[f] = "send" /\ hist'[f] = hist[f] /\ sent'[f] = sent[f])
         ]_vars

C15_Witness ==
    /\ Len(sent["v6"]) = ChanCap + 1
    /\ Len(chan["v6"]) = ChanCap
    /\ nrecv["v6"] = 1
    /\ pc["v6"] = "tick"

\* ----------------------------------------------------------------- C16
\* the value of v4_down (f = "v4") or v6_down (f = "v6") after this step
DownAfter(f) == IF f = "v4" THEN v4_down' ELSE v6_down'

\* C16: within one family the loop in main receives the booleans in the
\* order the prober sent them, one at a time, none skipped and none twice:
\* the n-th value it receives is the n-th value sent.
C16_Fifo ==
    /\ [](\A f \in Fam : nrecv[f] <= Len(sent[f]))
    /\ [][ \A f \in Fam :
              /\ nrecv'[f] \in {nrecv[f], nrecv[f] + 1}
              /\ nrecv'[f] = nrecv[f] + 1 => DownAfter(f) = sent[f][nrecv[f] + 1]
         ]_vars

C16_Witness ==
    /\ hysteresis = 1
    /\ nrecv["v4"] = 3 /\ v4_down
    /\ Len(chan["v4"]) = ChanCap - 3
    /\ ~chan["v4"][1] /\ chan["v4"][2]

\* ----------------------------------------------------------------- C17
\* C17: every iteration of monitor_ip issues one probe, then sends one
\* boolean (also when it equals the one sent before), then waits for the
\* tick: probes and sends alternate, a send follows a probe of the same
\* iteration, and after the tick comes the next probe.
C17_OneProbeOneSend ==
    /\ [](\A f \in Fam :
            /\ pc[f] \in {"ping", "tick"} => Len(hist[f]) = Len(sent[f])
            /\ pc[f] = "send" => Len(hist[f]) = Len(sent[f]) + 1)
    /\ [][ \A f \in Fam :
              /\ hist'[f] # hist[f]
                 => /\ pc[f] = "ping" /\ pc'[f] = "send"
                    /\ Len(hist'[f]) = Len(hist[f]) + 1
              /\ sent'[f] # sent[f]
                 => /\ pc[f] = "send" /\ pc'[f] = "tick"
                    /\ Len(sent'[f]) = Len(sent[f]) + 1
                    /\ chan'[f] = Append(chan[f], sent'[f][Len(sent'[f])])
              /\ (pc[f] = "tick" /\ pc'[f] # "tick") => pc'[f] \in {"ping", "cancelled"}
         ]_vars

C17_Witness ==
    /\ hysteresis = 2
    /\ hist["v4"] = <<"Err", "Err", "Err">>
    /\ sent["v4"] = <<FALSE, TRUE, TRUE>>
    /\ pc["v4"] = "tick"

\* ----------------------------------------------------------------- C18
\* C18: a step never changes both components of the recorded combined
\* state, the loop never finds (v4_down, v6_down) = (false, false) while both
\* error flags are active, and "network is back online" is never logged.
C18_OneComponentPerStep ==
    /\ [][ /\ ~(v4_error_active' # v4_error_active /\ v6_error_active' # v6_error_active)
           /\ ~(Updated /\ v4_error_active /\ v6_error_active /\ ~v4_down' /\ ~v6_down')
         ]_vars
    /\ [](Msgs(log) \cap NetBackMsgs = {})

C18_Witness ==
    /\ log = <<V4Down, NetDown, Ev("IPv4 is back online", None),
               Ev("IPv6 is back online", None)>>
    /\ ~v4_error_active /\ ~v6_error_active

\* ----------------------------------------------------------------- C19
\* the last of the first n logged events about family f reports it down
ReportedDown(f, n) ==
    LET about == {i \in 1..n : log[i].msg \in AboutMsgs(f)}
    IN /\ about # {}
       /\ log[CHOOSE i \in about : \A j \in about : j <= i].msg
             \in {DownMsg(f), "network is down!"}

\* a recovery of family f is logged only while f is reported down
RecoveryAfterDown ==
    \A f \in Fam : \A i \in DOMAIN log :
        log[i].msg \in BackMsgs(f) \cup NetBackMsgs => ReportedDown(f, i - 1)

\* C19 as claimed: per family, a recovery is logged only while the family is
\* reported down, and a down report covering the family ("X is down!" or
\* "network is down!") only while it is not reported down.
C19_StrictAlternation ==
    /\ RecoveryAfterDown
    /\ \A f \in Fam : \A i \in DOMAIN log :
          log[i].msg \in {DownMsg(f), "network is down!"} => ~ReportedDown(f, i - 1)

\* C19 as amended: per family, a recovery is logged only while the family is
\* reported down (so the first event about it is never a recovery), "X is
\* down!" is logged only while X is not reported down, and "network is
\* down!" only while at least one family is not reported down (it reports
\* the other family, already reported down, once more).
C19_Alternation ==
    /\ RecoveryAfterDown
    /\ \A f \in Fam : \A i \in DOMAIN log :
          log[i].msg = DownMsg(f) => ~ReportedDown(f, i - 1)
    /\ \A i \in DOMAIN log :
          log[i].msg = "network is down!" => \E f \in Fam : ~ReportedDown(f, i - 1)

C19_Witness ==
    log = <<V4Down, NetDown, Ev("IPv6 is back online;", None), NetDown>>

\* ----------------------------------------------------------------- C20
\* u32::MAX - 1
NearMax == <<Limb - 1, Limb - 2>>

\* the state after every probe of family g has failed since the start,
\* u32::MAX - 1 times, every probe of the other family has succeeded, and the
\* loop in main has received all that was sent; hist, sent and nrecv record
\* what happens from this state on
OverflowInit ==
    /\ hysteresis \in 1..MaxH
    /\ now = 0
    /\ pc = [f \in Fam |-> "ping"]
    /\ \E g \in Fam :
          /\ errors = [f \in Fam |-> IF f = g THEN NearMax ELSE Zero]
          /\ v4_down = (g = "v4") /\ v6_down = (g = "v6")
          /\ v4_error_active = (g = "v4") /\ v6_error_active = (g = "v6")
          /\ log = IF g = "v4" THEN <<V4Down>> ELSE <<V6Down>>
    /\ chan = [f \in Fam |-> <<>>]
    /\ hist = [f \in Fam |-> <<>>]
    /\ sent = [f \in Fam |-> <<>>]
    /\ probes = 0
    /\ nrecv = [f \in Fam |-> 0]
    /\ v4_error_start = None /\ v6_error_start = None
    /\ main_pc = "loop"
    /\ rx_alive = TRUE
    /\ watch_pc = "wait"
    /\ cancel = FALSE
    /\ cancel_sends = 0

OverflowSpec == OverflowInit /\ [][Next]_vars

\* C20 as claimed: when a probe fails while the counter is already at or
\* above the threshold (the run of failures goes on), the prober goes on to
\* its send and the counter is still at or above the threshold, so that the
\* boolean sent is TRUE again: no wrap to 0, no abort of the prober.
C20_NoWrapNoAbort ==
    [][ \A f \in Fam :
           ( /\ IsError(errors[f], hysteresis)
             /\ Len(hist'[f]) = Len(hist[f]) + 1
             /\ hist'[f][Len(hist'[f])] = "Err" )
           => (pc'[f] = "send" /\ IsError(errors'[f], hysteresis))
      ]_vars
====
